---- MODULE Spec2Model ----
(***************************************************************************)
(* Model of harigamiweb.py: the placeholder substitution over the          *)
(* paragraph/run structure of a Word document, the document-wide           *)
(* replacement, and the per-row generation, packaging and cleanup cycle.   *)
(*                                                                         *)
(* Text is a sequence of one-character strings.  The source's non-ASCII    *)
(* characters are written with ASCII stand-ins, one stand-in per           *)
(* character, so that lengths, prefixes and overlaps are those of the      *)
(* source strings:                                                         *)
(*    "[" = U+FF3B   "]" = U+FF3D   "(" = U+FF08   ")" = U+FF09            *)
(*    "^" = U+3000 (full-width space)                                      *)
(*    "M" = U+6708 (month)  "D" = U+65E5 (day)  "W" = U+6C34 (Wed)         *)
(*    "T" = U+571F (Sat)                                                   *)
(*    "b","k","n" = U+7269, U+4EF6, U+540D (the property-name token)       *)
(***************************************************************************)
EXTENDS Integers, Sequences, FiniteSets, TLC

VARIABLES
    \* --- one call of replace_placeholders_preserve_format ---
    runs,            \* paragraph.runs: sequence of [text, font]
    alignment,       \* paragraph.alignment
    replacements,    \* the replacements dict of the call
    pc,              \* "call" | "returned" | "raised" ("idle": no call)
    runs0,           \* the runs when the call was made
    alignment0,      \* the alignment when the call was made
    \* --- one call of replace_placeholders_comprehensive ---
    doc,             \* the in-memory Document
    doc0,            \* the document when the call was made
    disk,            \* what doc.save has written for this document
    dpc,             \* "call" | "returned" | "saved" ("idle": no call)
    \* --- one generation cycle (button press) ---
    rows,            \* the DataFrame rows
    idx,             \* position of the row loop (1-based)
    template_exists, \* os.path.exists(WORD_TEMPLATE)
    files,           \* OUTPUT_DIR: file name -> row whose document it holds
    generated_file_paths,
    processed_count,
    progress_text,
    outcome,         \* per row: the branch the loop body took
    generated_doc_paths, \* what process_excel_and_generate_docs returned
    archive,         \* entries of the ZIP: [name, content]
    gpc              \* "loop" | "returned" | "ended" ("idle": no cycle)

vars == <<runs, alignment, replacements, pc, runs0, alignment0,
          doc, doc0, disk, dpc,
          rows, idx, template_exists, files, generated_file_paths,
          processed_count, progress_text, outcome, generated_doc_paths,
          archive, gpc>>

paraVars == <<runs, alignment, replacements, pc, runs0, alignment0>>
docVars == <<doc, doc0, disk, dpc>>
genVars == <<rows, idx, template_exists, files, generated_file_paths,
             processed_count, progress_text, outcome, generated_doc_paths,
             archive, gpc>>

(***************************************************************************)
(* Bounds of the model.                                                    *)
(***************************************************************************)
MaxRuns == 2
MaxBody == 1
MaxRows == 3

(***************************************************************************)
(* Python str operations.                                                  *)
(***************************************************************************)
\* s[i : i + len(t)] == t
MatchAt(s, t, i) ==
    /\ i + Len(t) - 1 <= Len(s)
    /\ \A j \in 1..Len(t) : s[i + j - 1] = t[j]

\* t in s   (t is never empty here)
Contains(s, t) == \E i \in 1..(Len(s) - Len(t) + 1) : MatchAt(s, t, i)

\* s.replace(old, new): leftmost, non-overlapping, single pass
RECURSIVE StrReplace(_, _, _)
StrReplace(s, old, new) ==
    IF Len(s) < Len(old) THEN s
    ELSE IF MatchAt(s, old, 1)
         THEN new \o StrReplace(SubSeq(s, Len(old) + 1, Len(s)), old, new)
         ELSE <<Head(s)>> \o StrReplace(Tail(s), old, new)

\* ''.join(texts)
RECURSIVE Join(_)
Join(texts) == IF texts = <<>> THEN <<>> ELSE Head(texts) \o Join(Tail(texts))

(***************************************************************************)
(* PLACEHOLDERS, in the dict's insertion order.                            *)
(***************************************************************************)
DATE_PH == <<"[", "1", "0", "M", "^", "1", "9", "D", "(", "W", ")", "]">>
START_PH == <<"[", "1", "0", ":", "0", "0", "]">>
END_PH == <<"[", "1", "1", ":", "0", "0", "]">>
NAME_PH == <<"[", "b", "k", "n", "]">>

PLACEHOLDERS ==
    << [ph |-> DATE_PH, key |-> "DATE"],
       [ph |-> START_PH, key |-> "START_TIME"],
       [ph |-> END_PH, key |-> "END_TIME"],
       [ph |-> NAME_PH, key |-> "NAME"] >>

Keys == {"DATE", "START_TIME", "END_TIME", "NAME"}

\* the keys whose placeholder marks the paragraph for centering (line 39)
CenterKeys == {"DATE", "START_TIME", "END_TIME"}

(***************************************************************************)
(* Paragraphs and runs.                                                    *)
(***************************************************************************)
\* paragraph.text: the concatenation of the run texts
ParagraphText(rs) == Join([i \in 1..Len(rs) |-> rs[i].text])

\* "if ph in full_text" (line 37); PresentAlways is the loop body entered
\* for every placeholder, the test left out
PresentAlways(full_text, ph) == TRUE
Present(full_text, ph) == Contains(full_text, ph)

\* index of the first run whose text contains ph, 0 if there is none
\* (the for/if/break of lines 43-44 and 66)
FirstRunContaining(rs, ph) ==
    IF \E i \in 1..Len(rs) : Contains(rs[i].text, ph)
    THEN CHOOSE i \in 1..Len(rs) :
            /\ Contains(rs[i].text, ph)
            /\ \A j \in 1..(i - 1) : ~Contains(rs[j].text, ph)
    ELSE 0

\* truthiness of a Length: None and Pt(0) are falsy (line 56)
Truthy(size) == size \notin {"None", "Pt0"}

\* lines 56-65: the snapshot is written back attribute by attribute.
\* A font is [size, bold, italic, underline, color], "None" for an unset
\* attribute; color is the rgb of run.font.color.  original_color is the
\* run's live ColorFormat proxy, so the rgb written back is the rgb the run
\* has now.  RestoreFormatForceBold writes bold back as True whatever the
\* snapshot held.
RestoreFormatForceBold(font, original) ==
    [ size      |-> IF Truthy(original.size) THEN original.size ELSE font.size,
      bold      |-> "True",
      italic    |-> IF original.italic # "None" THEN original.italic ELSE font.italic,
      underline |-> IF original.underline # "None" THEN original.underline
                                                   ELSE font.underline,
      color     |-> font.color ]
RestoreFormat(font, original) ==
    [ size      |-> IF Truthy(original.size) THEN original.size ELSE font.size,
      bold      |-> IF original.bold # "None" THEN original.bold ELSE font.bold,
      italic    |-> IF original.italic # "None" THEN original.italic ELSE font.italic,
      underline |-> IF original.underline # "None" THEN original.underline
                                                   ELSE font.underline,
      color     |-> font.color ]

\* lines 46-65 on one run: snapshot, run.text = run.text.replace(...),
\* restore.  Assigning run.text replaces the run's text content and leaves
\* its run properties as they are.
ReplaceInRun(run, ph, val) ==
    LET original == run.font
        assigned == [run EXCEPT !.text = StrReplace(run.text, ph, val)]
    IN  [assigned EXCEPT !.font = RestoreFormat(assigned.font, original)]

\* replace_text_across_runs (lines 79-90)
replace_text_across_runs(rs, search_text, replace_text) ==
    LET full_text == ParagraphText(rs)
    IN  IF Contains(full_text, search_text) /\ Len(rs) > 0
        THEN [i \in 1..Len(rs) |->
                IF i = 1
                THEN [rs[i] EXCEPT !.text = StrReplace(full_text, search_text,
                                                       replace_text)]
                ELSE [rs[i] EXCEPT !.text = <<>>]]
        ELSE rs

\* the loop of lines 36-71 from the k-th placeholder on.  full_text is the
\* text read once at line 31.  replacements[key] raises KeyError where it is
\* evaluated: at line 53 (some run holds the token) or at line 71.
RECURSIVE PlaceholderLoop(_, _, _, _, _)
PlaceholderLoop(k, rs, full_text, repl, should_center) ==
    IF k > Len(PLACEHOLDERS)
    THEN [runs |-> rs, should_center |-> should_center, err |-> "none"]
    ELSE
      LET ph == PLACEHOLDERS[k].ph
          key == PLACEHOLDERS[k].key
      IN  IF ~Present(full_text, ph)
          THEN PlaceholderLoop(k + 1, rs, full_text, repl, should_center)
          ELSE
            LET center == should_center \/ key \in CenterKeys
                i == FirstRunContaining(rs, ph)
                raised(r) == [runs |-> r, should_center |-> center,
                              err |-> "KeyError"]
            IN  IF i # 0 /\ key \notin DOMAIN repl
                THEN raised(rs)
                ELSE
                  LET rs1 == IF i # 0
                             THEN [rs EXCEPT ![i] = ReplaceInRun(rs[i], ph, repl[key])]
                             ELSE rs
                  IN  IF Contains(ParagraphText(rs1), ph)
                      THEN IF key \notin DOMAIN repl
                           THEN raised(rs1)
                           ELSE PlaceholderLoop(k + 1,
                                    replace_text_across_runs(rs1, ph, repl[key]),
                                    full_text, repl, center)
                      ELSE PlaceholderLoop(k + 1, rs1, full_text, repl, center)

\* replace_placeholders_preserve_format (lines 28-76) on a paragraph
\* [runs, alignment]: the paragraph afterwards and whether the call raised.
replace_placeholders_preserve_format(p, repl) ==
    LET r == PlaceholderLoop(1, p.runs, ParagraphText(p.runs), repl, FALSE)
    IN  [ runs      |-> r.runs,
          alignment |-> IF r.err = "none" /\ r.should_center
                        THEN "CENTER" ELSE p.alignment,
          err       |-> r.err ]

(***************************************************************************)
(* The paragraphs, fonts and replacement sets the calls are made with.     *)
(***************************************************************************)
\* run texts: each token whole, a token twice, the START_TIME and NAME
\* tokens cut in two (the cut of "[10:" | "00]"), text without a token,
\* and bracket characters on their own
RunTexts ==
    { DATE_PH, START_PH, END_PH, NAME_PH,
      NAME_PH \o NAME_PH,
      <<"[", "1", "0", ":">>, <<"0", "0", "]">>,
      <<"[", "b">>, <<"k", "n", "]">>,
      <<"x">>, <<" ">>, <<"[">>, <<"]">> }

FontUnset ==
    [size |-> "None", bold |-> "None", italic |-> "None",
     underline |-> "None", color |-> "None"]
FontSet ==
    [size |-> "Pt12", bold |-> "True", italic |-> "False",
     underline |-> "True", color |-> "FF0000"]
FontPool == <<FontUnset, FontSet>>

Alignments == {"None", "LEFT"}

\* date_str, start_str, end_str and name of a row (lines 171-173, 152)
DateStr == <<"1", "0", "M", "1", "9", "D", "(", "T", ")">>
FullSet ==
    [k \in Keys |->
        CASE k = "DATE" -> DateStr
          [] k = "START_TIME" -> <<"1", "1", ":", "0", "0">>
          [] k = "END_TIME" -> <<"1", "2", ":", "0", "0">>
          [] k = "NAME" -> <<"A", " ", "B">>]
\* a property name that contains the property-name token
SelfNameSet == [FullSet EXCEPT !["NAME"] = <<"x">> \o NAME_PH]
Without(key) == [k \in Keys \ {key} |-> FullSet[k]]
ReplSets == {FullSet, SelfNameSet, Without("NAME"), Without("START_TIME")}

\* the paragraphs of at most n runs; run i carries FontPool[(f + i) % 2 + 1]
RunSeqs(n) == UNION {[1..m -> RunTexts] : m \in 0..n}
MkRuns(texts, f) ==
    [i \in 1..Len(texts) |->
        [text |-> texts[i], font |-> FontPool[((f + i) % Len(FontPool)) + 1]]]

IdlePara ==
    /\ runs = <<>> /\ alignment = "None" /\ replacements = FullSet
    /\ pc = "idle" /\ runs0 = <<>> /\ alignment0 = "None"
IdleDoc ==
    /\ doc = <<>> /\ doc0 = <<>> /\ disk = {} /\ dpc = "idle"
IdleGen ==
    /\ rows = <<>> /\ idx = 0 /\ template_exists = TRUE /\ files = <<>>
    /\ generated_file_paths = <<>> /\ processed_count = 0
    /\ progress_text = [kind |-> "none", done |-> 0, total |-> 0]
    /\ outcome = <<>> /\ generated_doc_paths = <<>> /\ archive = <<>>
    /\ gpc = "idle"

(***************************************************************************)
(* One call of replace_placeholders_preserve_format.                       *)
(***************************************************************************)
InitPara ==
    /\ \E texts \in RunSeqs(MaxRuns), f \in 1..Len(FontPool) :
          runs = MkRuns(texts, f)
    /\ alignment \in Alignments
    /\ replacements \in ReplSets
    /\ pc = "call"
    /\ runs0 = runs
    /\ alignment0 = alignment
    /\ IdleDoc /\ IdleGen

Substitute ==
    /\ pc = "call"
    /\ LET r == replace_placeholders_preserve_format(
                    [runs |-> runs, alignment |-> alignment], replacements)
       IN  /\ runs' = r.runs
           /\ alignment' = r.alignment
           /\ pc' = IF r.err = "none" THEN "returned" ELSE "raised"
    /\ UNCHANGED <<replacements, runs0, alignment0>>
    /\ UNCHANGED docVars /\ UNCHANGED genVars

NextPara == Substitute

SpecPara == InitPara /\ [][NextPara]_vars

(***************************************************************************)
(* Reference replacements the claims compare the result with.              *)
(***************************************************************************)
TokenIn(text) == \E k \in 1..Len(PLACEHOLDERS) : Contains(text, PLACEHOLDERS[k].ph)

\* the tokens replaced one after another, in table order; a token whose key
\* is not supplied is left as it is
RECURSIVE SequentialReplace(_, _, _)
SequentialReplace(k, s, repl) ==
    IF k > Len(PLACEHOLDERS) THEN s
    ELSE SequentialReplace(k + 1,
            IF PLACEHOLDERS[k].key \in DOMAIN repl
            THEN StrReplace(s, PLACEHOLDERS[k].ph, repl[PLACEHOLDERS[k].key])
            ELSE s,
            repl)

\* every token occurrence of the original text replaced in one scan
RECURSIVE SimultaneousReplace(_, _)
SimultaneousReplace(s, repl) ==
    IF s = <<>> THEN <<>>
    ELSE LET hit == {k \in 1..Len(PLACEHOLDERS) :
                        /\ MatchAt(s, PLACEHOLDERS[k].ph, 1)
                        /\ PLACEHOLDERS[k].key \in DOMAIN repl}
         IN  IF hit # {}
             THEN LET k == CHOOSE x \in hit : TRUE
                  IN  repl[PLACEHOLDERS[k].key]
                      \o SimultaneousReplace(
                            SubSeq(s, Len(PLACEHOLDERS[k].ph) + 1, Len(s)), repl)
             ELSE <<Head(s)>> \o SimultaneousReplace(Tail(s), repl)

\* number of characters before run i
Offset(rs, i) == Len(ParagraphText(SubSeq(rs, 1, i - 1)))

\* every occurrence of every token in the visible text lies inside one run
NoSplitToken(rs) ==
    \A k \in 1..Len(PLACEHOLDERS) :
      LET ph == PLACEHOLDERS[k].ph
          text == ParagraphText(rs)
      IN  \A p \in 1..Len(text) :
            MatchAt(text, ph, p) =>
              \E i \in 1..Len(rs) :
                /\ Offset(rs, i) < p
                /\ p + Len(ph) - 1 <= Offset(rs, i) + Len(rs[i].text)

\* a DATE, START_TIME or END_TIME token lies inside run i
TimeTokenInRun(rs, i) ==
    \E k \in 1..Len(PLACEHOLDERS) :
        /\ PLACEHOLDERS[k].key \in {"DATE", "START_TIME", "END_TIME"}
        /\ Contains(rs[i].text, PLACEHOLDERS[k].ph)

(***************************************************************************)
(* Claims about replace_placeholders_preserve_format (SpecPara).           *)
(***************************************************************************)

\* C1: with all four keys supplied, the visible text after the call is the
\* original visible text with every token occurrence replaced by its value
\* (read either way: the tokens replaced one after another in table order,
\* or all occurrences of the original text replaced at once).
CE_C1 ==
    (pc = "returned" /\ Keys \subseteq DOMAIN replacements) =>
        ParagraphText(runs) \in
            { SequentialReplace(1, ParagraphText(runs0), replacements),
              SimultaneousReplace(ParagraphText(runs0), replacements) }

\* C2: when a DATE, START_TIME or END_TIME token lies inside one run, then
\* after the call has returned that run's size, bold, italic, underline and
\* color are what they were before (unset stays unset) and the paragraph is
\* centered.
Thm_C2 ==
    pc = "returned" =>
        \A i \in 1..Len(runs0) :
            TimeTokenInRun(runs0, i) =>
                /\ runs[i].font = runs0[i].font
                /\ alignment = "CENTER"

\* C2 witness: a call has returned on a paragraph whose run with unset
\* attributes held a date/time token; the run's text was replaced and the
\* paragraph, not centered before, is centered.
Wit_C2 ==
    /\ pc = "returned"
    /\ alignment0 # "CENTER"
    /\ alignment = "CENTER"
    /\ \E i \in 1..Len(runs0) :
          /\ TimeTokenInRun(runs0, i)
          /\ runs0[i].font = FontUnset
          /\ runs[i].text # runs0[i].text
    /\ \E j \in 1..Len(runs0) :
          TimeTokenInRun(runs0, j) /\ runs0[j].font = FontSet

\* C3: when no token occurs in the visible text, the call returns and leaves
\* every run's text, every run's attributes and the alignment as they were.
Thm_C3 ==
    (pc # "call" /\ ~TokenIn(ParagraphText(runs0))) =>
        /\ pc = "returned"
        /\ runs = runs0
        /\ alignment = alignment0

\* C3 witness: a call has returned on a two-run paragraph that holds bracket
\* characters and the first half of a token but no whole token.
Wit_C3 ==
    /\ pc = "returned"
    /\ Len(runs0) = 2
    /\ ~TokenIn(ParagraphText(runs0))
    /\ runs0[1].text = <<"[", "1", "0", ":">>
    /\ runs0[2].text = <<"]">>
    /\ alignment0 = "LEFT"

\* C8: when the replacement set lacks the key of a token of the paragraph,
\* the call returns without an error, that token's text is kept and the
\* tokens whose keys are supplied are replaced.
CE_C8 ==
    (/\ pc # "call"
     /\ \E k \in 1..Len(PLACEHOLDERS) :
           /\ PLACEHOLDERS[k].key \notin DOMAIN replacements
           /\ Contains(ParagraphText(runs0), PLACEHOLDERS[k].ph))
    => /\ pc = "returned"
       /\ ParagraphText(runs) =
             SequentialReplace(1, ParagraphText(runs0), replacements)

\* C10: when every occurrence of every token lies inside a single run (the
\* replacement values being those of an ordinary row, free of tokens), the
\* call empties no run and changes the text only of runs that held a token.
CE_C10 ==
    (pc = "returned" /\ replacements = FullSet /\ NoSplitToken(runs0)) =>
        \A i \in 1..Len(runs0) :
            /\ runs0[i].text # <<>> => runs[i].text # <<>>
            /\ ~TokenIn(runs0[i].text) => runs[i].text = runs0[i].text

(***************************************************************************)
(* The document and replace_placeholders_comprehensive.                    *)
(*   doc      = [paragraphs, tables, sections]                             *)
(*   table    = sequence of rows, row = sequence of cells                  *)
(*   cell     = [paragraphs, tables]   (tables: the cell's own tables)     *)
(*   section  = [header, footer], each a sequence of paragraphs            *)
(***************************************************************************)
Whitespace == {" ", "^"}

\* str.strip()
RECURSIVE LStrip(_)
LStrip(s) == IF s # <<>> /\ Head(s) \in Whitespace THEN LStrip(Tail(s)) ELSE s
RECURSIVE RStrip(_)
RStrip(s) ==
    IF s # <<>> /\ s[Len(s)] \in Whitespace
    THEN RStrip(SubSeq(s, 1, Len(s) - 1)) ELSE s
Strip(s) == RStrip(LStrip(s))

\* the call on one paragraph; the document-wide pass is made with the four
\* keys of lines 181-186, so no call raises
SubstituteParagraph(p, repl) ==
    LET r == replace_placeholders_preserve_format(p, repl)
    IN  [runs |-> r.runs, alignment |-> r.alignment]

SubstituteAll(ps, repl) == [i \in 1..Len(ps) |-> SubstituteParagraph(ps[i], repl)]

\* lines 102-104: the body paragraphs whose text is not blank
SubstituteBody(ps, repl) ==
    [i \in 1..Len(ps) |->
        IF Strip(ParagraphText(ps[i].runs)) # <<>>
        THEN SubstituteParagraph(ps[i], repl) ELSE ps[i]]

\* replace_placeholders_in_tables (lines 92-98): the paragraphs of the cells
\* of the rows of doc.tables; the tables a cell holds are not visited
replace_placeholders_in_tables(tables, repl) ==
    [t \in 1..Len(tables) |->
      [r \in 1..Len(tables[t]) |->
        [c \in 1..Len(tables[t][r]) |->
          [tables[t][r][c] EXCEPT !.paragraphs = SubstituteAll(@, repl)]]]]

\* lines 108-115: the header, then the footer, of every section
SubstituteSections(sections, repl) ==
    [s \in 1..Len(sections) |->
        [header |-> SubstituteAll(sections[s].header, repl),
         footer |-> SubstituteAll(sections[s].footer, repl)]]

\* replace_placeholders_comprehensive (lines 100-115)
replace_placeholders_comprehensive(d, repl) ==
    [paragraphs |-> SubstituteBody(d.paragraphs, repl),
     tables     |-> replace_placeholders_in_tables(d.tables, repl),
     sections   |-> SubstituteSections(d.sections, repl)]

\* the paragraphs the template documents are built from
Para(texts) == [runs |-> MkRuns(texts, 1), alignment |-> "LEFT"]
ParaPool ==
    { Para(<< <<" ">> >>),
      Para(<< <<"x">> >>),
      Para(<< NAME_PH >>),
      Para(<< <<"[", "1", "0", ":">>, <<"0", "0", "]">> >>) }
NestedPool == { Para(<< <<"x">> >>), Para(<< NAME_PH >>) }

\* a table of one row and one cell
OneCellTable(cell) == << << cell >> >>
Cells ==
    { [paragraphs |-> <<p>>, tables |-> n] :
        p \in ParaPool,
        n \in {<<>>} \cup
              { << OneCellTable([paragraphs |-> <<q>>, tables |-> <<>>]) >> :
                    q \in NestedPool } }
Templates ==
    { [paragraphs |-> b, tables |-> t,
       sections |-> << [header |-> <<h>>, footer |-> <<f>>] >>] :
        b \in UNION {[1..m -> ParaPool] : m \in 0..MaxBody},
        t \in {<<>>} \cup { << OneCellTable(c) >> : c \in Cells },
        h \in ParaPool, f \in ParaPool }

\* a template just loaded (line 195), about to be substituted with the
\* replacements of a row; nothing has been written for it yet
InitDoc ==
    /\ doc \in Templates
    /\ doc0 = doc
    /\ disk = {}
    /\ dpc = "call"
    /\ replacements \in {FullSet, SelfNameSet}
    /\ runs = <<>> /\ alignment = "None" /\ pc = "idle"
    /\ runs0 = <<>> /\ alignment0 = "None"
    /\ IdleGen

Comprehensive ==
    /\ dpc = "call"
    /\ doc' = replace_placeholders_comprehensive(doc, replacements)
    /\ dpc' = "returned"
    /\ UNCHANGED <<doc0, disk>>
    /\ UNCHANGED paraVars /\ UNCHANGED genVars

\* the caller's doc.save(output_path) (line 204)
SaveDocument ==
    /\ dpc = "returned"
    /\ disk' = disk \cup {"output_path"}
    /\ dpc' = "saved"
    /\ UNCHANGED <<doc, doc0>>
    /\ UNCHANGED paraVars /\ UNCHANGED genVars

NextDoc == Comprehensive \/ SaveDocument

SpecDoc == InitDoc /\ [][NextDoc]_vars

\* the paragraphs inside the cells of the given tables, those of the tables
\* the cells hold included
RECURSIVE TableParagraphs(_)
TableParagraphs(tables) ==
    UNION { UNION { UNION {
        { tables[t][r][c].paragraphs[i] :
              i \in 1..Len(tables[t][r][c].paragraphs) }
        \cup TableParagraphs(tables[t][r][c].tables)
      : c \in 1..Len(tables[t][r]) }
      : r \in 1..Len(tables[t]) }
      : t \in 1..Len(tables) }

\* the places C4 names: non-blank body paragraphs, the paragraphs inside the
\* cells of the tables, the header and footer paragraphs of the sections
NamedParagraphs(d) ==
    { d.paragraphs[i] : i \in { j \in 1..Len(d.paragraphs) :
                                  Strip(ParagraphText(d.paragraphs[j].runs)) # <<>> } }
    \cup TableParagraphs(d.tables)
    \cup UNION { { d.sections[s].header[i] : i \in 1..Len(d.sections[s].header) }
                 \cup { d.sections[s].footer[i] : i \in 1..Len(d.sections[s].footer) }
               : s \in 1..Len(d.sections) }

NoValueHoldsToken(repl) == \A k \in DOMAIN repl : ~TokenIn(repl[k])

\* C4: after replace_placeholders_comprehensive with all four keys supplied
\* and no value containing a token, no non-blank body paragraph, no paragraph
\* inside a cell of a table and no header or footer paragraph contains a
\* token, and nothing has been written to disk.
CE_C4 ==
    (/\ dpc = "returned"
     /\ Keys \subseteq DOMAIN replacements
     /\ NoValueHoldsToken(replacements))
    => /\ \A p \in NamedParagraphs(doc) : ~TokenIn(ParagraphText(p.runs))
       /\ disk = {}

(***************************************************************************)
(* One generation cycle: process_excel_and_generate_docs (lines 117-227)   *)
(* and the packaging and cleanup of lines 266-300.                         *)
(*                                                                         *)
(* A row is [name_na, name, start, end]: name_na says whether the name     *)
(* cell is NaN; start and end are "NaN", "bad" (pd.to_datetime gives NaT)  *)
(* or "ok".  A file of OUTPUT_DIR is named by its file name; its content   *)
(* is the index of the row whose document it holds.                        *)
(***************************************************************************)
Row(name, start, end) ==
    [name_na |-> FALSE, name |-> name, start |-> start, end |-> end]
RowPool ==
    { Row(<<"A", "/", "B", ":", " ", "C">>, "ok", "ok"),
      Row(<<"A", " ", "B">>, "ok", "ok"),
      Row(<<"A", "_", "B">>, "ok", "ok"),
      Row(<<" ">>, "ok", "ok"),
      [name_na |-> TRUE, name |-> <<>>, start |-> "ok", end |-> "ok"],
      Row(<<"A">>, "bad", "ok"),
      Row(<<"A">>, "ok", "NaN") }

\* lines 148-163: the row is skipped
SkippedByCode(row) ==
    \/ row.name_na \/ row.start = "NaN" \/ row.end = "NaN"
    \/ row.start = "bad" \/ row.end = "bad"

\* line 200: the chain of str.replace calls
ReplacedChars == {"/", "\\", ":", " ", "^"}
safe_name(name) ==
    [i \in 1..Len(name) |-> IF name[i] \in ReplacedChars THEN "_" ELSE name[i]]

\* line 201
output_file_name(name) == safe_name(name) \o <<".", "d", "o", "c", "x">>

\* doc.save(output_path): the file is created or overwritten
SaveFile(fs, fname, content) ==
    [f \in (DOMAIN fs) \cup {fname} |-> IF f = fname THEN content ELSE fs[f]]

\* os.remove of every path of the list (lines 293-297)
RemoveFiles(fs, paths) ==
    [f \in (DOMAIN fs) \ {paths[k] : k \in 1..Len(paths)} |-> fs[f]]

InitGen ==
    /\ rows \in UNION {[1..n -> RowPool] : n \in 0..MaxRows}
    /\ idx = 1
    /\ template_exists = TRUE
    /\ files = <<>>
    /\ generated_file_paths = <<>>
    /\ processed_count = 0
    /\ progress_text = [kind |-> "none", done |-> 0, total |-> 0]
    /\ outcome = <<>>
    /\ generated_doc_paths = <<>>
    /\ archive = <<>>
    /\ gpc = "loop"
    /\ IdlePara /\ IdleDoc

\* lines 141-143, at the top of every iteration
Processing == [kind |-> "processing", done |-> idx, total |-> Len(rows)]

\* lines 147-163 and 177-179: the row is skipped
SkipRow ==
    /\ gpc = "loop" /\ idx <= Len(rows)
    /\ SkippedByCode(rows[idx])
    /\ progress_text' = Processing
    /\ outcome' = Append(outcome, [branch |-> "skipped", path |-> <<>>])
    /\ idx' = idx + 1
    /\ UNCHANGED <<rows, template_exists, files, generated_file_paths,
                   processed_count, generated_doc_paths, archive, gpc>>
    /\ UNCHANGED paraVars /\ UNCHANGED docVars

\* lines 188-206: the document is built, saved and recorded
SaveRow ==
    /\ gpc = "loop" /\ idx <= Len(rows)
    /\ ~SkippedByCode(rows[idx])
    /\ template_exists
    /\ LET name == Strip(rows[idx].name)
           output_path == output_file_name(name)
       IN  /\ files' = SaveFile(files, output_path, idx)
           /\ generated_file_paths' = Append(generated_file_paths, output_path)
           /\ outcome' = Append(outcome, [branch |-> "saved", path |-> output_path])
    /\ processed_count' = processed_count + 1
    /\ progress_text' = Processing
    /\ idx' = idx + 1
    /\ UNCHANGED <<rows, template_exists, generated_doc_paths, archive, gpc>>
    /\ UNCHANGED paraVars /\ UNCHANGED docVars

\* lines 209-211: loading the template, substituting or saving raised
RowGenerationFails ==
    /\ gpc = "loop" /\ idx <= Len(rows)
    /\ ~SkippedByCode(rows[idx])
    /\ template_exists
    /\ progress_text' = Processing
    /\ outcome' = Append(outcome, [branch |-> "failed", path |-> <<>>])
    /\ idx' = idx + 1
    /\ UNCHANGED <<rows, template_exists, files, generated_file_paths,
                   processed_count, generated_doc_paths, archive, gpc>>
    /\ UNCHANGED paraVars /\ UNCHANGED docVars

\* lines 191-193: the template is not there, the function returns []
AbortTemplateMissing ==
    /\ gpc = "loop" /\ idx <= Len(rows)
    /\ ~SkippedByCode(rows[idx])
    /\ ~template_exists
    /\ progress_text' = Processing
    /\ outcome' = Append(outcome, [branch |-> "aborted", path |-> <<>>])
    /\ generated_doc_paths' = <<>>
    /\ gpc' = "returned"
    /\ UNCHANGED <<rows, idx, template_exists, files, generated_file_paths,
                   processed_count, archive>>
    /\ UNCHANGED paraVars /\ UNCHANGED docVars

\* the template file is removed while the loop runs (the check of line 191
\* is made again for every row)
TemplateRemoved ==
    /\ gpc = "loop" /\ idx <= Len(rows)
    /\ template_exists
    /\ template_exists' = FALSE
    /\ UNCHANGED <<rows, idx, files, generated_file_paths, processed_count,
                   progress_text, outcome, generated_doc_paths, archive, gpc>>
    /\ UNCHANGED paraVars /\ UNCHANGED docVars

\* lines 213-220: the loop is over
FinishLoop ==
    /\ gpc = "loop" /\ idx > Len(rows)
    /\ progress_text' = [kind |-> "done", done |-> processed_count,
                         total |-> Len(rows)]
    /\ generated_doc_paths' = generated_file_paths
    /\ gpc' = "returned"
    /\ UNCHANGED <<rows, idx, template_exists, files, generated_file_paths,
                   processed_count, outcome, archive>>
    /\ UNCHANGED paraVars /\ UNCHANGED docVars

\* lines 268-297: every path is written to the ZIP under its base name,
\* then every path is removed
PackageAndCleanUp ==
    /\ gpc = "returned"
    /\ generated_doc_paths # <<>>
    /\ archive' = [k \in 1..Len(generated_doc_paths) |->
                      [name |-> generated_doc_paths[k],
                       content |-> files[generated_doc_paths[k]]]]
    /\ files' = RemoveFiles(files, generated_doc_paths)
    /\ gpc' = "ended"
    /\ UNCHANGED <<rows, idx, template_exists, generated_file_paths,
                   processed_count, progress_text, outcome, generated_doc_paths>>
    /\ UNCHANGED paraVars /\ UNCHANGED docVars

\* lines 299-300: the returned list is empty
NoDocuments ==
    /\ gpc = "returned"
    /\ generated_doc_paths = <<>>
    /\ gpc' = "ended"
    /\ UNCHANGED <<rows, idx, template_exists, files, generated_file_paths,
                   processed_count, progress_text, outcome, generated_doc_paths,
                   archive>>
    /\ UNCHANGED paraVars /\ UNCHANGED docVars

NextGen ==
    \/ SkipRow
    \/ SaveRow
    \/ RowGenerationFails
    \/ AbortTemplateMissing
    \/ TemplateRemoved
    \/ FinishLoop
    \/ PackageAndCleanUp
    \/ NoDocuments

SpecGen == InitGen /\ [][NextGen]_vars

(***************************************************************************)
(* Claims about the generation cycle (SpecGen).                            *)
(***************************************************************************)
\* the rows the loop body has been through
Processed == 1..Len(outcome)

\* C5's valid row: name, start and end present, both date-times parseable
ValidRow(row) == ~row.name_na /\ row.start = "ok" /\ row.end = "ok"
ValidRows == {i \in 1..Len(rows) : ValidRow(rows[i])}

\* no row has a name of white space only
NoBlankName ==
    \A i \in 1..Len(rows) : rows[i].name_na \/ Strip(rows[i].name) # <<>>

\* C5: a cycle that ran through all N rows (none with a blank name, none
\* failing in generation) puts exactly K documents in the archive, one for
\* each of the K valid rows, and its final progress report says K of N.
CE_C5 ==
    (/\ gpc = "ended"
     /\ NoBlankName
     /\ Len(outcome) = Len(rows)
     /\ \A i \in Processed : outcome[i].branch \in {"skipped", "saved"})
    => /\ Len(archive) = Cardinality(ValidRows)
       /\ \A i \in ValidRows : \E e \in 1..Len(archive) : archive[e].content = i
       /\ progress_text = [kind |-> "done", done |-> Cardinality(ValidRows),
                           total |-> Len(rows)]

\* C6's invalid row: a field missing, a blank name, or a start or end that
\* does not parse
InvalidRow(row) ==
    \/ row.name_na \/ row.start # "ok" \/ row.end # "ok"
    \/ Strip(row.name) = <<>>

\* C6: an invalid row is skipped: it produces no document, is not counted,
\* and the loop goes on to the next row.
CE_C6 ==
    \A i \in Processed :
        InvalidRow(rows[i]) => outcome[i].branch = "skipped"

\* the file name without its extension
Stem(fname) == SubSeq(fname, 1, Len(fname) - 5)
\* the characters C7 keeps: word characters, dot and hyphen
KeptChars == {"A", "B", "C", "x", "_", ".", "-"}

\* C7: the file name of every document saved for a row with a non-blank
\* name is a sanitized name plus the extension: its stem has no character
\* other than word characters, dot and hyphen (so no "/", "\" or ":"), no two
\* underscores in a row, no leading or trailing underscore, and is not empty.
CE_C7 ==
    \A i \in Processed :
        (outcome[i].branch = "saved" /\ Strip(rows[i].name) # <<>>) =>
            LET stem == Stem(outcome[i].path)
            IN  /\ \A j \in 1..Len(stem) : stem[j] \in KeptChars
                /\ ~Contains(stem, <<"_", "_">>)
                /\ stem # <<>>
                /\ stem[1] # "_" /\ stem[Len(stem)] # "_"

\* C9: once the cycle has ended, however it ended, no file written by it is
\* left in the working directory (stated for spreadsheets without a blank
\* name).
CE_C9 == (gpc = "ended" /\ NoBlankName) => DOMAIN files = {}

====
